---- MODULE Spec2Model ----
(***************************************************************************)
(* File-to-link bot: the per-user conversation state machine of bot.py,    *)
(* the session store of states.py, the metadata store of storage.py and    *)
(* the link formatter of links.py.                                         *)
(*                                                                         *)
(* One action per inbound update: the action is the whole handler.  Every  *)
(* call to the messaging platform (reply_text, edit_text, answer,          *)
(* forward_messages, get_me) either succeeds or raises; the outcome is an  *)
(* input of the action.  `last` is the update just handled together with   *)
(* the calls its handler issued and their outcomes; it is NoEvent while    *)
(* the dispatcher waits for the next update.  `tasks` is the handler       *)
(* coroutines in flight, in arrival order; it is used where handlers are   *)
(* followed await by await and stays empty where a handler is one step.    *)
(*                                                                         *)
(* Optional values are None == <<>> or Some(x) == <<x>>.  FileMetadata's   *)
(* created_at and UserState's context are never read by a handler and are  *)
(* left out.                                                               *)
(***************************************************************************)
EXTENDS Integers, Sequences, FiniteSets, TLC

VARIABLES states, data, next_msg_id, last, tasks

vars == <<states, data, next_msg_id, last, tasks>>

----------------------------------------------------------------------------
(* Bounds *)

MaxArchive == 3

\* Updates followed await by await.
MaxTasks == 3

----------------------------------------------------------------------------
(* Values *)

None == <<>>
Some(x) == <<x>>
Val(o) == o[1]

Users == {"u1", "u2"}
Keys == {"k1", "k2"}
Whitespace == {" ", "\t", "\n"}

\* The texts a user may send: empty, whitespace only, plain, and padded with
\* whitespace on both sides.
Texts == { <<>>, <<" ">>, <<"a">>, <<" ", "b", "\n">> }

\* The media messages a user may send: a named document and an unnamed video.
Media ==
    { [kind |-> "document", file_id |-> "idA", file_unique_id |-> "uA",
       file_name |-> Some(<<"a.txt">>), file_size |-> 1],
      [kind |-> "video", file_id |-> "idB", file_unique_id |-> "uB",
       file_name |-> None, file_size |-> 2] }

\* A platform call succeeds, raises RpcError ("rpc") or raises another
\* exception ("exc").
Failures == {"rpc", "exc"}
Results == {"ok"} \cup Failures

BOT_USERNAME == "bot"

----------------------------------------------------------------------------
(* links.py *)

generate_stream_link(file_key) == <<"https://stream.example.com/", file_key>>

generate_download_link(file_key) == <<"https://download.example.com/", file_key>>

generate_tg_link(bot_username, message_id) == <<"https://t.me/", bot_username, message_id>>

\* Mutant: the name and the key passed in each other's place.
format_links_message_swapped(file_name, file_key, has_password, stream_link, download_link, tg_link) ==
    [file_name |-> file_key,
     file_key |-> file_name,
     password_protected |-> IF has_password THEN "Yes" ELSE "No",
     stream_link |-> stream_link,
     download_link |-> download_link,
     tg_link |-> tg_link]

format_links_message(file_name, file_key, has_password, stream_link, download_link, tg_link) ==
    [file_name |-> file_name,
     file_key |-> file_key,
     password_protected |-> IF has_password THEN "Yes" ELSE "No",
     stream_link |-> stream_link,
     download_link |-> download_link,
     tg_link |-> tg_link]

----------------------------------------------------------------------------
(* states.py *)

UserState(user_id) ==
    [user_id |-> user_id, file_key |-> None, file_id |-> None, file_name |-> None,
     file_size |-> None, awaiting_password |-> FALSE, password_choice |-> None]

get_state(st, user_id) ==
    IF user_id \in DOMAIN st THEN st ELSE st @@ (user_id :> UserState(user_id))

\* Mutant: fields already set are kept, only absent ones are filled.
set_file_info_fill_absent(st, user_id, file_key, file_id, file_name, file_size) ==
    LET s == get_state(st, user_id)
        Fill(old, new) == IF old = None THEN Some(new) ELSE old
    IN  [s EXCEPT ![user_id].file_key = Fill(@, file_key),
                  ![user_id].file_id = Fill(@, file_id),
                  ![user_id].file_name = Fill(@, file_name),
                  ![user_id].file_size = Fill(@, file_size)]

set_file_info(st, user_id, file_key, file_id, file_name, file_size) ==
    LET s == get_state(st, user_id)
    IN  [s EXCEPT ![user_id].file_key = Some(file_key),
                  ![user_id].file_id = Some(file_id),
                  ![user_id].file_name = Some(file_name),
                  ![user_id].file_size = Some(file_size)]

set_awaiting_password(st, user_id, awaiting) ==
    LET s == get_state(st, user_id)
    IN  [s EXCEPT ![user_id].awaiting_password = awaiting]

\* Mutant: the choice is not recorded.
set_password_choice_dropped(st, user_id, choice) == get_state(st, user_id)

set_password_choice(st, user_id, choice) ==
    LET s == get_state(st, user_id)
    IN  [s EXCEPT ![user_id].password_choice = Some(choice)]

\* Mutant: every session is dropped, not only the user's.
clear_state_all(st, user_id) == <<>>

\* Mutant: the entry stays and only its pending key is reset.
clear_state_keeps_entry(st, user_id) ==
    IF user_id \in DOMAIN st
    THEN [st EXCEPT ![user_id].file_key = None]
    ELSE st

\* Mutant: the file fields are reset, the entry and its flags stay.
clear_state_keeps_flags(st, user_id) ==
    IF user_id \in DOMAIN st
    THEN [st EXCEPT ![user_id].file_key = None, ![user_id].file_id = None,
                    ![user_id].file_name = None, ![user_id].file_size = None]
    ELSE st

clear_state(st, user_id) ==
    IF user_id \in DOMAIN st
    THEN [v \in DOMAIN st \ {user_id} |-> st[v]]
    ELSE st

----------------------------------------------------------------------------
(* storage.py *)

\* Mutant: the record is created protected, whatever the caller passes.
FileMetadata_protected(file_key, file_id, file_name, file_size, user_id, message_id_in_storage, has_password) ==
    [file_key |-> file_key, file_id |-> file_id, file_name |-> file_name,
     file_size |-> file_size, user_id |-> user_id,
     message_id_in_storage |-> message_id_in_storage,
     has_password |-> TRUE, password |-> None]

FileMetadata(file_key, file_id, file_name, file_size, user_id, message_id_in_storage, has_password) ==
    [file_key |-> file_key, file_id |-> file_id, file_name |-> file_name,
     file_size |-> file_size, user_id |-> user_id,
     message_id_in_storage |-> message_id_in_storage,
     has_password |-> has_password, password |-> None]

\* secrets.token_urlsafe(16): any key may come out, an issued one included.
generate_file_key == Keys

\* Mutant: nothing is written.
store_file_dropped(d, file_metadata) == d

\* Mutant: the owner's earlier records are removed when a new one is put.
store_file_one_per_owner(d, file_metadata) ==
    [k \in {j \in DOMAIN d : d[j].user_id # file_metadata.user_id} \cup {file_metadata.file_key} |->
        IF k = file_metadata.file_key THEN file_metadata ELSE d[k]]

\* Mutant: a record already stored under the key is kept.
store_file_keeps_existing(d, file_metadata) ==
    IF file_metadata.file_key \in DOMAIN d THEN d
    ELSE d @@ (file_metadata.file_key :> file_metadata)

store_file(d, file_metadata) ==
    [k \in DOMAIN d \cup {file_metadata.file_key} |->
        IF k = file_metadata.file_key THEN file_metadata ELSE d[k]]

store_file_returns(file_metadata) == file_metadata.file_key

get_file(d, file_key) ==
    IF file_key \in DOMAIN d THEN Some(d[file_key]) ELSE None

\* Mutant: the flag is written where the password should be.
update_password_flag_first(d, file_key, password) == [d EXCEPT ![file_key].has_password = TRUE]

\* The two field writes of update_password, in the order of the code.
update_password_first(d, file_key, password) == [d EXCEPT ![file_key].password = Some(password)]

update_password_second(d, file_key, password) == [d EXCEPT ![file_key].has_password = TRUE]

\* Mutant: every record of the store gets the password.
update_password_every(d, file_key, password) ==
    IF file_key \in DOMAIN d
    THEN [k \in DOMAIN d |-> [d[k] EXCEPT !.password = Some(password), !.has_password = TRUE]]
    ELSE d

update_password(d, file_key, password) ==
    IF file_key \in DOMAIN d
    THEN update_password_second(update_password_first(d, file_key, password), file_key, password)
    ELSE d

\* Mutant: success is reported whether or not the key is there.
update_password_returns_true(d, file_key) == TRUE

update_password_returns(d, file_key) == file_key \in DOMAIN d

delete_file(d, file_key) ==
    IF file_key \in DOMAIN d
    THEN [k \in DOMAIN d \ {file_key} |-> d[k]]
    ELSE d

delete_file_returns(d, file_key) == file_key \in DOMAIN d

----------------------------------------------------------------------------
(* str.strip() *)

RECURSIVE lstrip(_)
lstrip(s) ==
    IF s = <<>> THEN s
    ELSE IF Head(s) \in Whitespace THEN lstrip(Tail(s)) ELSE s

RECURSIVE rstrip(_)
rstrip(s) ==
    IF s = <<>> THEN s
    ELSE IF s[Len(s)] \in Whitespace THEN rstrip(SubSeq(s, 1, Len(s) - 1)) ELSE s

\* Mutant: only leading whitespace is removed.
strip_left_only(s) == lstrip(s)

\* Mutant: the text is taken as it is.
strip_nothing(s) == s

strip(s) == rstrip(lstrip(s))

----------------------------------------------------------------------------
(* Calls to the messaging platform *)

Call(call, tag, body) == [call |-> call, tag |-> tag, body |-> body]

Done(c, res) == [call |-> c.call, tag |-> c.tag, body |-> c.body, res |-> res]

\* The ways a try body that issues `calls` in order can run: every call
\* succeeds, or the calls before the n-th succeed and the n-th raises.
TryRuns(calls) ==
    { [out |-> [i \in 1..Len(calls) |-> Done(calls[i], "ok")], raised |-> None] }
    \cup
    { [out |-> [i \in 1..n |-> Done(calls[i], IF i < n THEN "ok" ELSE f)],
       raised |-> Some(f)] : n \in 1..Len(calls), f \in Failures }

\* One call made outside any try, or inside an except clause: it succeeds
\* or its exception leaves the function.
CallRuns(c) ==
    { [out |-> <<Done(c, r)>>, raised |-> IF r = "ok" THEN None ELSE Some(r)] : r \in Results }

----------------------------------------------------------------------------
(* bot.py: _deliver_links *)

\* An outcome of _deliver_links: the session store afterwards, the calls
\* issued, and the exception that leaves the function, if any.
Outcome(st, out, raised) == [states |-> st, out |-> out, raised |-> raised]

\* Mutant: the session is dropped when the record is absent.
deliver_not_found_clears(st, user_id, out) == Outcome(clear_state(st, user_id), out, None)

\* The record is absent: the not-found report went out and the function returned.
deliver_not_found(st, user_id, out) == Outcome(st, out, None)

\* Mutant: the pending key is reset and the session kept.
deliver_sent_resets_key(st, user_id, out) ==
    Outcome([st EXCEPT ![user_id].file_key = None], out, None)

\* The links went out: the session is cleared.
deliver_sent(st, user_id, out) == Outcome(clear_state(st, user_id), out, None)

\* Mutant: the session is dropped when a call of the try body raised.
deliver_failed_clears(st, user_id, out, report) ==
    Outcome(clear_state(st, user_id), out \o report.out, report.raised)

\* A call of the try body raised: the except clause reports it, and the
\* report itself may raise.
deliver_failed(st, user_id, out, report) == Outcome(st, out \o report.out, report.raised)

\* via = "callback_query" or "message".
deliver_links(st, d, user_id, has_password, via) ==
    LET state == st[user_id]
        metadata == IF state.file_key = None THEN None ELSE get_file(d, Val(state.file_key))
        file_key == Val(state.file_key)
        stream_link == generate_stream_link(file_key)
        download_link == generate_download_link(file_key)
        Tell(tag) == IF via = "callback_query"
                     THEN Call("answer", tag, None)
                     ELSE Call("reply_text", tag, None)
        tg_link == generate_tg_link(BOT_USERNAME, Val(metadata).message_id_in_storage)
        links_message == format_links_message(Val(state.file_name), file_key, has_password,
                                              stream_link, download_link, tg_link)
        body == IF metadata = None
                THEN <<Tell("file_not_found")>>
                ELSE IF via = "callback_query"
                THEN <<Call("get_me", "", None),
                       Call("edit_text", "links", Some(links_message)),
                       Call("answer", "links_generated", None)>>
                ELSE <<Call("get_me", "", None),
                       Call("reply_text", "links", Some(links_message))>>
    IN  UNION { IF run.raised # None
                THEN { deliver_failed(st, user_id, run.out, report)
                         : report \in CallRuns(Tell("error_generating_links")) }
                ELSE IF metadata = None
                THEN { deliver_not_found(st, user_id, run.out) }
                ELSE { deliver_sent(st, user_id, run.out) }
              : run \in TryRuns(body) }

----------------------------------------------------------------------------
(* Inbound private messages and pyrogram's dispatch: the handlers of one   *)
(* group are tried in registration order and the first whose filter        *)
(* matches handles the message.                                            *)

Messages ==
    { [command |-> Some(c), media |-> None, text |-> None] : c \in {"start", "help"} }
    \cup { [command |-> None, media |-> Some(m), text |-> None] : m \in Media }
    \cup { [command |-> None, media |-> None, text |-> Some(t)] : t \in Texts }
    \cup { [command |-> None, media |-> None, text |-> None] }

Handlers == <<"start_handler", "file_upload_handler", "password_input_handler", "default_handler">>

Matches(handler, message) ==
    CASE handler = "start_handler" -> message.command = Some("start")
      [] handler = "file_upload_handler" ->
             message.media # None /\ Val(message.media).kind \in {"document", "video", "audio"}
      [] handler = "password_input_handler" -> message.command = None
      [] handler = "default_handler" -> TRUE

Dispatch(message) ==
    Handlers[CHOOSE i \in 1..Len(Handlers) :
                /\ Matches(Handlers[i], message)
                /\ \A j \in 1..(i - 1) : ~Matches(Handlers[j], message)]

\* The messages each handler receives.
MessagesFor == [h \in {Handlers[i] : i \in 1..Len(Handlers)} |-> {m \in Messages : Dispatch(m) = h}]

Event(handler, user_id, message, choice, out) ==
    [handler |-> handler, user_id |-> user_id, message |-> message, choice |-> choice, out |-> out]

NoEvent == Event("none", "none", None, None, <<>>)

----------------------------------------------------------------------------
(* bot.py: the handlers *)

start_handler(user_id) ==
    \E message \in MessagesFor["start_handler"],
       reply \in CallRuns(Call("reply_text", "welcome", None)) :
        /\ last = NoEvent
        /\ states' = get_state(states, user_id)
        /\ last' = Event("start_handler", user_id, Some(message), None, reply.out)
        /\ UNCHANGED <<data, next_msg_id, tasks>>

\* file_name of the uploaded media, with the handler's defaults.
upload_file_name(file_obj) ==
    IF file_obj.file_name # None THEN Val(file_obj.file_name)
    ELSE CASE file_obj.kind = "document" -> <<"document">>
           [] file_obj.kind = "video" -> <<"video_", file_obj.file_unique_id>>
           [] file_obj.kind = "audio" -> <<"audio_", file_obj.file_unique_id>>

upload_error(raised) ==
    Call("reply_text", IF raised = Some("rpc") THEN "error_processing_file" ELSE "unexpected_error", None)

file_upload_handler(user_id) ==
    \E message \in MessagesFor["file_upload_handler"] :
        LET file_obj == Val(message.media)
            file_name == upload_file_name(file_obj)
            file_id == file_obj.file_id
            file_size == file_obj.file_size
            Handled(out) ==
                /\ last' = Event("file_upload_handler", user_id, Some(message), None, out)
                /\ UNCHANGED tasks
            Failed(run) ==
                \E e \in CallRuns(upload_error(run.raised)) : Handled(run.out \o e.out)
            Stored(relay, file_key) ==
                LET stored_message_id == next_msg_id
                    metadata == FileMetadata(file_key, file_id, file_name, file_size,
                                             user_id, stored_message_id, FALSE)
                    prompt == [file_name |-> file_name, file_size |-> file_size,
                               file_key |-> file_key]
                IN  /\ next_msg_id < MaxArchive
                    /\ next_msg_id' = next_msg_id + 1
                    /\ data' = store_file(data, metadata)
                    /\ states' = set_file_info(states, user_id, file_key, file_id,
                                               file_name, file_size)
                    /\ \E ask \in TryRuns(<<Call("edit_text", "password_choice", Some(prompt))>>) :
                         IF ask.raised = None
                         THEN Handled(relay.out \o ask.out)
                         ELSE Failed([out |-> relay.out \o ask.out, raised |-> ask.raised])
        IN  \E relay \in TryRuns(<<Call("reply_text", "processing", None),
                                   Call("forward_messages", "", None)>>) :
              /\ last = NoEvent
              /\ \/ \* the processing reply or the relay to the storage channel raised
                    /\ relay.raised # None
                    /\ Failed(relay)
                    /\ UNCHANGED <<states, data, next_msg_id>>
                 \/ /\ relay.raised = None
                    /\ \E file_key \in generate_file_key : Stored(relay, file_key)

choice_error(raised) ==
    Call("answer", IF raised = Some("rpc") THEN "error_processing_choice" ELSE "unexpected_error", None)

\* Mutant: the check for a file in progress is missing.
no_file_key_unchecked(state) == FALSE

\* `not state.file_key`
no_file_key(state) == state.file_key = None

password_choice_callback(user_id) ==
    \E choice \in {"pwd_yes", "pwd_no"} :
        LET st == get_state(states, user_id)
            state == st[user_id]
            Handled(st2, out) ==
                /\ states' = st2
                /\ last' = Event("password_choice_callback", user_id, None, Some(choice), out)
                /\ UNCHANGED <<data, next_msg_id, tasks>>
            \* the except clauses of the handler
            Caught(st2, out, raised) ==
                IF raised = None
                THEN Handled(st2, out)
                ELSE \E e \in CallRuns(choice_error(raised)) : Handled(st2, out \o e.out)
        IN  /\ last = NoEvent
            /\ CASE no_file_key(state) ->
                      \E r \in CallRuns(Call("answer", "no_file_in_progress", None)) :
                          Handled(st, r.out)
                 [] ~no_file_key(state) /\ choice = "pwd_no" ->
                      \E d \in deliver_links(st, data, user_id, FALSE, "callback_query") :
                          Caught(d.states, d.out, d.raised)
                 [] ~no_file_key(state) /\ choice = "pwd_yes" ->
                      \E run \in TryRuns(<<Call("edit_text", "enter_password", None),
                                           Call("answer", "", None)>>) :
                          Caught(set_password_choice(set_awaiting_password(st, user_id, TRUE),
                                                     user_id, "yes"),
                                 run.out, run.raised)

password_input_handler(user_id) ==
    \E message \in MessagesFor["password_input_handler"] :
        /\ last = NoEvent
        /\ LET st == get_state(states, user_id)
               state == st[user_id]
               Handled(st2, d2, out) ==
                   /\ states' = st2
                   /\ data' = d2
                   /\ last' = Event("password_input_handler", user_id, Some(message), None, out)
                   /\ UNCHANGED <<next_msg_id, tasks>>
           IN  IF ~state.awaiting_password
               THEN Handled(st, data, <<>>)
               ELSE IF message.text = None
               THEN Handled(st, data, <<>>)  \* AttributeError on None.strip(), outside the try
               ELSE LET password == strip(Val(message.text))
                    IN  IF password = <<>> \/ Len(password) < 1
                        THEN \E r \in CallRuns(Call("reply_text", "password_cannot_be_empty", None)) :
                                Handled(st, data, r.out)
                        ELSE LET d2 == update_password(data, Val(state.file_key), password)
                             IN  \E d \in deliver_links(st, d2, user_id, TRUE, "message") :
                                 \E e \in IF d.raised = None THEN {[out |-> <<>>]}
                                          ELSE CallRuns(Call("reply_text", "error_setting_password", None)) :
                                     Handled(d.states, d2, d.out \o e.out)

default_handler(user_id) ==
    \E message \in MessagesFor["default_handler"] :
        /\ last = NoEvent
        /\ LET st == get_state(states, user_id)
           IN  /\ states' = st
               /\ \E r \in IF ~st[user_id].awaiting_password
                           THEN CallRuns(Call("reply_text", "please_send_a_file", None))
                           ELSE {[out |-> <<>>]} :
                      last' = Event("default_handler", user_id, Some(message), None, r.out)
               /\ UNCHANGED <<data, next_msg_id, tasks>>

\* storage.delete_file, the administrative removal of a record; no handler calls it.
admin_delete_file ==
    \E file_key \in DOMAIN data :
        /\ last = NoEvent
        /\ data' = delete_file(data, file_key)
        /\ UNCHANGED <<states, next_msg_id, last, tasks>>

\* The handler has returned; the dispatcher waits for the next update.
next_update ==
    /\ last # NoEvent
    /\ last' = NoEvent
    /\ UNCHANGED <<states, data, next_msg_id, tasks>>

----------------------------------------------------------------------------
(* bot.py: the handlers as coroutines.  Every update starts its handler in  *)
(* arrival order; the handler runs until it awaits the platform, other      *)
(* handlers run meanwhile, and it goes on when the awaited call returns or  *)
(* raises.  A frame of `tasks` is one such handler: its update, the await   *)
(* it is suspended at (pc), its local variables, and its result once it     *)
(* has returned.  Consecutive awaits between which the handler touches      *)
(* neither store are one suspension.                                        *)

Task(handler, user_id, message, choice) ==
    [handler |-> handler, user_id |-> user_id, message |-> message, choice |-> choice,
     pc |-> "done", result |-> "", file_key |-> None, metadata |-> None,
     has_password |-> FALSE, state |-> None, links |-> None]

Returned(task, result) ==
    [task EXCEPT !.pc = "done", !.result = result, !.metadata = None, !.state = None]

\* The local `state` of a suspended _deliver_links is the UserState object
\* it was given: the user's entry of the session store for as long as that
\* entry is not deleted (state = None), afterwards the detached object with
\* the content it had (state = Some(content)).
Attached(task) == task.pc \in {"get_me", "send"} /\ task.state = None

state_of(st, task) == IF task.state = None THEN st[task.user_id] ELSE Val(task.state)

\* clear_state while other handlers of the user hold the deleted object.
Detach(tk, st, user_id) ==
    [i \in DOMAIN tk |->
        IF tk[i].user_id = user_id /\ Attached(tk[i]) /\ user_id \in DOMAIN st
        THEN [tk[i] EXCEPT !.state = Some(st[user_id])]
        ELSE tk[i]]

\* _deliver_links up to its first await: client.get_me(), or the not-found
\* report after which it returns.
deliver_links_begins(task, st, d, has_password) ==
    LET state == st[task.user_id]
        metadata == IF state.file_key = None THEN None ELSE get_file(d, Val(state.file_key))
    IN  IF metadata = None
        THEN Returned(task, "file_not_found")
        ELSE [task EXCEPT !.pc = "get_me", !.file_key = state.file_key,
                          !.metadata = metadata, !.has_password = has_password]

\* file_upload_handler up to the relay: the processing reply and
\* forward_messages are awaited.
file_upload_handler_begins(user_id) ==
    \E message \in MessagesFor["file_upload_handler"] :
        /\ Len(tasks) < MaxTasks
        /\ tasks' = Append(tasks, [Task("file_upload_handler", user_id, Some(message), None)
                                      EXCEPT !.pc = "forward_messages"])
        /\ UNCHANGED <<states, data, next_msg_id, last>>

\* The relay has returned or raised: the rest of file_upload_handler.  The
\* prompt edit and the error reports that follow touch no store.
file_upload_handler_relayed(i) ==
    /\ i \in DOMAIN tasks
    /\ tasks[i].pc = "forward_messages"
    /\ LET task == tasks[i]
           user_id == task.user_id
           file_obj == Val(Val(task.message).media)
           file_name == upload_file_name(file_obj)
       IN  \/ /\ tasks' = [tasks EXCEPT ![i] = Returned(task, "failed")]
              /\ UNCHANGED <<states, data, next_msg_id, last>>
           \/ \E file_key \in generate_file_key :
                 LET metadata == FileMetadata(file_key, file_obj.file_id, file_name,
                                              file_obj.file_size, user_id, next_msg_id, FALSE)
                 IN  /\ next_msg_id < MaxArchive
                     /\ next_msg_id' = next_msg_id + 1
                     /\ data' = store_file(data, metadata)
                     /\ states' = set_file_info(states, user_id, file_key, file_obj.file_id,
                                                file_name, file_obj.file_size)
                     /\ tasks' = [tasks EXCEPT ![i] = [Returned(task, "stored")
                                                         EXCEPT !.file_key = Some(file_key)]]
                     /\ UNCHANGED last

\* password_choice_callback up to its return or to the first await of
\* _deliver_links.
password_choice_callback_begins(user_id) ==
    \E choice \in {"pwd_yes", "pwd_no"} :
        LET st == get_state(states, user_id)
            state == st[user_id]
            task == Task("password_choice_callback", user_id, None, Some(choice))
        IN  /\ Len(tasks) < MaxTasks
            /\ CASE no_file_key(state) ->
                      /\ states' = st
                      /\ tasks' = Append(tasks, Returned(task, "no_file_in_progress"))
                 [] ~no_file_key(state) /\ choice = "pwd_no" ->
                      /\ states' = st
                      /\ tasks' = Append(tasks, deliver_links_begins(task, st, data, FALSE))
                 [] ~no_file_key(state) /\ choice = "pwd_yes" ->
                      /\ states' = set_password_choice(set_awaiting_password(st, user_id, TRUE),
                                                       user_id, "yes")
                      /\ tasks' = Append(tasks, Returned(task, "enter_password"))
            /\ UNCHANGED <<data, next_msg_id, last>>

\* password_input_handler up to its return or to the first await of
\* _deliver_links.
password_input_handler_begins(user_id) ==
    \E message \in MessagesFor["password_input_handler"] :
        LET st == get_state(states, user_id)
            state == st[user_id]
            task == Task("password_input_handler", user_id, Some(message), None)
            password == strip(Val(message.text))
        IN  /\ Len(tasks) < MaxTasks
            /\ states' = st
            /\ IF ~state.awaiting_password \/ message.text = None
               THEN /\ tasks' = Append(tasks, Returned(task, "ignored"))
                    /\ data' = data
               ELSE IF password = <<>> \/ Len(password) < 1
               THEN /\ tasks' = Append(tasks, Returned(task, "password_cannot_be_empty"))
                    /\ data' = data
               ELSE LET d2 == update_password(data, Val(state.file_key), password)
                    IN  /\ data' = d2
                        /\ tasks' = Append(tasks, deliver_links_begins(task, st, d2, TRUE))
            /\ UNCHANGED <<next_msg_id, last>>

\* client.get_me() has returned or raised: the links message is formatted
\* from `state` as it is now, and its sending is awaited.
deliver_links_got_me(i) ==
    /\ i \in DOMAIN tasks
    /\ tasks[i].pc = "get_me"
    /\ LET task == tasks[i]
           state == state_of(states, task)
           file_key == Val(task.file_key)
           tg_link == generate_tg_link(BOT_USERNAME, Val(task.metadata).message_id_in_storage)
           links_message == format_links_message(Val(state.file_name), Val(state.file_key),
                                                 task.has_password,
                                                 generate_stream_link(file_key),
                                                 generate_download_link(file_key), tg_link)
       IN  \/ tasks' = [tasks EXCEPT ![i] = Returned(task, "error_generating_links")]
           \/ tasks' = [tasks EXCEPT ![i].pc = "send", ![i].links = Some(links_message)]
    /\ UNCHANGED <<states, data, next_msg_id, last>>

\* The sending of the links message has returned or raised.  For a press
\* the message is edited and the press then answered: the answer may raise
\* after the links went out.
deliver_links_sent(i) ==
    /\ i \in DOMAIN tasks
    /\ tasks[i].pc = "send"
    /\ LET task == tasks[i]
           user_id == task.user_id
       IN  \/ /\ states' = clear_state(states, user_id)
              /\ tasks' = [Detach(tasks, states, user_id) EXCEPT ![i] = Returned(task, "links")]
           \/ /\ states' = states
              /\ tasks' = [tasks EXCEPT ![i] = [Returned(task, "error_generating_links")
                                                  EXCEPT !.links = None]]
           \/ /\ task.handler = "password_choice_callback"
              /\ states' = states
              /\ tasks' = [tasks EXCEPT ![i] = Returned(task, "links_unanswered")]
    /\ UNCHANGED <<data, next_msg_id, last>>

----------------------------------------------------------------------------
(* storage.py called directly, as test_storage does: `last` is the call    *)
(* made, with its return value once it has returned.  update_password is   *)
(* followed write by write.                                                *)

StorageCall(op, file_key, arg, ret) == [op |-> op, file_key |-> file_key, arg |-> arg, ret |-> ret]

\* A call of the store has not returned yet.
InCall == last # NoEvent /\ last.ret = None

\* The records callers construct: unprotected, as file_upload_handler and
\* test_storage build them.
StoreRecords ==
    { FileMetadata(k, m.file_id, upload_file_name(m), m.file_size, u, 1, FALSE)
        : k \in Keys, m \in Media, u \in Users }

\* The passwords password_input_handler can pass on.
Passwords == { strip(t) : t \in {x \in Texts : strip(x) # <<>>} }

storage_store_file ==
    \E file_metadata \in StoreRecords :
        /\ ~InCall
        /\ data' = store_file(data, file_metadata)
        /\ last' = StorageCall("store_file", file_metadata.file_key, Some(file_metadata),
                               Some(store_file_returns(file_metadata)))
        /\ UNCHANGED <<states, next_msg_id, tasks>>

storage_get_file ==
    \E file_key \in Keys :
        /\ ~InCall
        /\ last' = StorageCall("get_file", file_key, None, Some(get_file(data, file_key)))
        /\ UNCHANGED <<states, data, next_msg_id, tasks>>

\* update_password up to its first field write, or to `return False`.
storage_update_password ==
    \E file_key \in Keys, password \in Passwords :
        /\ ~InCall
        /\ IF file_key \in DOMAIN data
           THEN /\ data' = update_password_first(data, file_key, password)
                /\ last' = StorageCall("update_password", file_key, Some(password), None)
           ELSE /\ data' = data
                /\ last' = StorageCall("update_password", file_key, Some(password),
                                       Some(update_password_returns(data, file_key)))
        /\ UNCHANGED <<states, next_msg_id, tasks>>

\* The second field write of update_password and its `return True`.
storage_update_password_returns ==
    /\ InCall
    /\ last.op = "update_password"
    /\ data' = update_password_second(data, last.file_key, Val(last.arg))
    /\ last' = [last EXCEPT !.ret = Some(update_password_returns(data, last.file_key))]
    /\ UNCHANGED <<states, next_msg_id, tasks>>

storage_delete_file ==
    \E file_key \in Keys :
        /\ ~InCall
        /\ data' = delete_file(data, file_key)
        /\ last' = StorageCall("delete_file", file_key, None, Some(delete_file_returns(data, file_key)))
        /\ UNCHANGED <<states, next_msg_id, tasks>>

----------------------------------------------------------------------------
(* states.py called directly, as test_states does: `last` is the call made, *)
(* the entry it found for the user and, for get_state, the session it       *)
(* returned.                                                                *)

StateCall(op, user_id, ret) ==
    [op |-> op, user_id |-> user_id, ret |-> ret,
     found |-> IF user_id \in DOMAIN states THEN Some(states[user_id]) ELSE None]

state_get_state ==
    \E user_id \in Users :
        /\ states' = get_state(states, user_id)
        /\ last' = StateCall("get_state", user_id, Some(get_state(states, user_id)[user_id]))
        /\ UNCHANGED <<data, next_msg_id, tasks>>

state_set_file_info ==
    \E user_id \in Users, file_key \in Keys, m \in Media :
        /\ states' = set_file_info(states, user_id, file_key, m.file_id,
                                   upload_file_name(m), m.file_size)
        /\ last' = StateCall("set_file_info", user_id, None)
        /\ UNCHANGED <<data, next_msg_id, tasks>>

state_set_awaiting_password ==
    \E user_id \in Users, awaiting \in BOOLEAN :
        /\ states' = set_awaiting_password(states, user_id, awaiting)
        /\ last' = StateCall("set_awaiting_password", user_id, None)
        /\ UNCHANGED <<data, next_msg_id, tasks>>

state_set_password_choice ==
    \E user_id \in Users, choice \in {"yes", "no"} :
        /\ states' = set_password_choice(states, user_id, choice)
        /\ last' = StateCall("set_password_choice", user_id, None)
        /\ UNCHANGED <<data, next_msg_id, tasks>>

state_clear_state ==
    \E user_id \in Users :
        /\ states' = clear_state(states, user_id)
        /\ last' = StateCall("clear_state", user_id, None)
        /\ UNCHANGED <<data, next_msg_id, tasks>>

----------------------------------------------------------------------------
(* Specifications *)

Init ==
    /\ states = <<>>
    /\ data = <<>>
    /\ next_msg_id = 1
    /\ last = NoEvent
    /\ tasks = <<>>

Flow ==
    \E user_id \in Users :
        \/ start_handler(user_id)
        \/ file_upload_handler(user_id)
        \/ password_choice_callback(user_id)
        \/ password_input_handler(user_id)
        \/ default_handler(user_id)

Next == Flow \/ next_update

Spec == Init /\ [][Next]_vars

\* The conversational flow together with administrative deletion.
NextAdmin == Flow \/ admin_delete_file \/ next_update

SpecAdmin == Init /\ [][NextAdmin]_vars

\* The metadata store under direct calls.
NextStore ==
    \/ storage_store_file
    \/ storage_get_file
    \/ storage_update_password
    \/ storage_update_password_returns
    \/ storage_delete_file

SpecStore == Init /\ [][NextStore]_vars

\* The handlers as coroutines that interleave at their awaits.
NextTasks ==
    \/ \E user_id \in Users :
          \/ file_upload_handler_begins(user_id)
          \/ password_choice_callback_begins(user_id)
          \/ password_input_handler_begins(user_id)
    \/ \E i \in 1..MaxTasks :
          \/ file_upload_handler_relayed(i)
          \/ deliver_links_got_me(i)
          \/ deliver_links_sent(i)

SpecTasks == Init /\ [][NextTasks]_vars

\* The session store under direct calls.
NextStates ==
    \/ state_get_state
    \/ state_set_file_info
    \/ state_set_awaiting_password
    \/ state_set_password_choice
    \/ state_clear_state

SpecStates == Init /\ [][NextStates]_vars

TypeOK ==
    /\ DOMAIN states \subseteq Users
    /\ DOMAIN data \subseteq Keys
    /\ next_msg_id \in 1..MaxArchive

----------------------------------------------------------------------------
(* Vocabulary of the properties *)

AllOk(out) == \A i \in DOMAIN out : out[i].res = "ok"

\* A call with this tag was issued / was issued and succeeded.
Issued(out, tag) == \E i \in DOMAIN out : out[i].tag = tag
Succeeded(out, tag) == \E i \in DOMAIN out : out[i].tag = tag /\ out[i].res = "ok"

\* The links messages that reached the user.
LinksIn(out) == { Val(out[i].body) : i \in {j \in DOMAIN out : out[j].tag = "links" /\ out[j].res = "ok"} }

Pending(st, u) == u \in DOMAIN st /\ st[u].file_key # None
PendingKey(st, u) == Val(st[u].file_key)
Awaiting(st, u) == u \in DOMAIN st /\ st[u].awaiting_password

IsUpload(ev, u) == ev.handler = "file_upload_handler" /\ ev.user_id = u
IsChoice(ev, u, c) == ev.handler = "password_choice_callback" /\ ev.user_id = u /\ ev.choice = Some(c)
IsText(ev, u) ==
    /\ ev.handler = "password_input_handler" /\ ev.user_id = u
    /\ Val(ev.message).text # None
TextOf(ev) == Val(Val(ev.message).text)

\* An upload handled without any call raising: the third call is the prompt.
UploadOk(ev, u) == IsUpload(ev, u) /\ AllOk(ev.out)
PromptOf(ev) == Val(ev.out[3].body)
MediaOf(ev) == Val(Val(ev.message).media)

----------------------------------------------------------------------------
(* C1: after a successful upload the issued key is the one in the prompt,   *)
(* in the record and in the session; another user's update leaves it there; *)
(* and a no-password press whose calls all succeed delivers exactly one     *)
(* links message, carrying that key in its key field and in the stream and  *)
(* download links.                                                          *)

C1_Step ==
    \A u \in Users :
        /\ UploadOk(last', u) =>
              LET k == PromptOf(last').file_key
              IN  /\ Pending(states', u) /\ PendingKey(states', u) = k
                  /\ k \in DOMAIN data' /\ data'[k].file_key = k /\ data'[k].user_id = u
        /\ (Pending(states, u) /\ last'.user_id # u) =>
              (Pending(states', u) /\ PendingKey(states', u) = PendingKey(states, u))
        /\ (Pending(states, u) /\ IsChoice(last', u, "pwd_no") /\ AllOk(last'.out)) =>
              LET k == PendingKey(states, u)
              IN  /\ Cardinality(LinksIn(last'.out)) = 1
                  /\ \A m \in LinksIn(last'.out) :
                        /\ m.file_key = k
                        /\ m.stream_link = <<"https://stream.example.com/", k>>
                        /\ m.download_link = <<"https://download.example.com/", k>>

\* C1: every update keeps the issued key from upload to the links message.
C1_KeyInLinks == [][C1_Step]_vars

C1_Witness ==
    \E u \in Users :
        /\ IsChoice(last, u, "pwd_no") /\ AllOk(last.out)
        /\ \E m \in LinksIn(last.out) : m.file_key \in DOMAIN data /\ data[m.file_key].user_id = u

----------------------------------------------------------------------------
(* C2: an upload that is handled successfully leaves the uploader with      *)
(* awaiting_password false and password_choice absent, whatever the state   *)
(* before it.                                                               *)

C2_Claim ==
    [][\A u \in Users :
          UploadOk(last', u) =>
              /\ states'[u].awaiting_password = FALSE
              /\ states'[u].password_choice = None]_vars

----------------------------------------------------------------------------
(* C3: an upload made while another file is pending replaces all four       *)
(* pending fields by those of the new file, and the no-password press that  *)
(* follows delivers one links message, for the pending key and name.        *)

C3_Step ==
    \A u \in Users :
        /\ (Pending(states, u) /\ UploadOk(last', u)) =>
              LET s == states'[u]
                  m == MediaOf(last')
              IN  /\ s.file_key = Some(PromptOf(last').file_key)
                  /\ s.file_id = Some(m.file_id)
                  /\ s.file_size = Some(m.file_size)
                  /\ s.file_name = Some(PromptOf(last').file_name)
                  /\ m.file_name # None => s.file_name = m.file_name
                  /\ data'[Val(s.file_key)].message_id_in_storage = next_msg_id
        /\ (Pending(states, u) /\ IsChoice(last', u, "pwd_no") /\ AllOk(last'.out)) =>
              /\ Cardinality(LinksIn(last'.out)) = 1
              /\ \A m \in LinksIn(last'.out) :
                    /\ m.file_key = PendingKey(states, u)
                    /\ Some(m.file_name) = states[u].file_name

\* C3: the last upload wins: session fields and delivered links are its own.
C3_LastUploadWins == [][C3_Step]_vars

\* Two records of one user under different keys, and the links delivered are
\* those of the later one.
C3_Witness ==
    \E u \in Users, kA, kB \in DOMAIN data :
        /\ kA # kB /\ data[kA].user_id = u /\ data[kB].user_id = u
        /\ data[kA].message_id_in_storage < data[kB].message_id_in_storage
        /\ data[kA].file_id # data[kB].file_id
        /\ IsChoice(last, u, "pwd_no") /\ AllOk(last.out)
        /\ \E m \in LinksIn(last.out) :
              m.file_key = kB /\ m.tg_link[3] = data[kB].message_id_in_storage

----------------------------------------------------------------------------
(* Texts as a user sees them *)

Blank(t) == \A n \in 1..Len(t) : t[n] \in Whitespace

\* p is t without its leading and trailing whitespace.
IsTrimOf(p, t) ==
    \E i, j \in 1..Len(t) :
        /\ i <= j /\ p = SubSeq(t, i, j)
        /\ t[i] \notin Whitespace /\ t[j] \notin Whitespace
        /\ \A n \in 1..(i - 1) : t[n] \in Whitespace
        /\ \A n \in (j + 1)..Len(t) : t[n] \in Whitespace

\* The user's update asks for delivery: a no-password press, or a text that
\* is a password while one is awaited.
AsksDelivery(st, ev, u) ==
    \/ IsChoice(ev, u, "pwd_no")
    \/ (Awaiting(st, u) /\ IsText(ev, u) /\ ~Blank(TextOf(ev)))

----------------------------------------------------------------------------
(* C4, as claimed: while a password is awaited, any non-empty (not blank)    *)
(* text p whose calls all succeed ends with the pending record protected    *)
(* with password p, the links for its key delivered and the session         *)
(* cleared.                                                                 *)

C4_Claim ==
    [][\A u \in Users :
          (Awaiting(states, u) /\ IsText(last', u) /\ ~Blank(TextOf(last')) /\ AllOk(last'.out)) =>
              LET k == PendingKey(states, u)
              IN  /\ k \in DOMAIN data'
                  /\ data'[k].has_password
                  /\ data'[k].password = Some(TextOf(last'))
                  /\ \E m \in LinksIn(last'.out) : m.file_key = k
                  /\ u \notin DOMAIN states']_vars

(* C4, amended: while a password is awaited, any text p that is not empty   *)
(* or whitespace only, and whose calls all succeed, ends with the pending   *)
(* record protected with p stripped of leading and trailing whitespace as   *)
(* its password, one links message for its key delivered, marked            *)
(* protected, and the session cleared.                                      *)

C4_Step ==
    \A u \in Users :
        (Awaiting(states, u) /\ IsText(last', u) /\ ~Blank(TextOf(last')) /\ AllOk(last'.out)) =>
            LET k == PendingKey(states, u)
            IN  /\ k \in DOMAIN data'
                /\ data'[k].has_password
                /\ data'[k].password # None
                /\ IsTrimOf(Val(data'[k].password), TextOf(last'))
                /\ Cardinality(LinksIn(last'.out)) = 1
                /\ \A m \in LinksIn(last'.out) : m.file_key = k /\ m.password_protected = "Yes"
                /\ u \notin DOMAIN states'

\* C4 (amended): the stripped password text is stored and the flow completes.
C4_PasswordStored == [][C4_Step]_vars

C4_Witness ==
    \E u \in Users, k \in DOMAIN data :
        /\ IsText(last, u) /\ TextOf(last) = <<" ", "b", "\n">> /\ AllOk(last.out)
        /\ \E m \in LinksIn(last.out) : m.file_key = k
        /\ data[k].has_password /\ data[k].password = Some(<<"b">>)
        /\ u \notin DOMAIN states

----------------------------------------------------------------------------
(* C5: while a password is awaited, an empty or whitespace-only text is     *)
(* answered by the re-prompt alone and changes neither the session store    *)
(* nor the metadata store.                                                  *)

C5_Step ==
    \A u \in Users :
        (Awaiting(states, u) /\ IsText(last', u) /\ Blank(TextOf(last'))) =>
            /\ Len(last'.out) = 1
            /\ last'.out[1].call = "reply_text"
            /\ last'.out[1].tag = "password_cannot_be_empty"
            /\ states' = states
            /\ data' = data

\* C5: a blank password text is re-prompted and changes nothing.
C5_EmptyPasswordRejected == [][C5_Step]_vars

C5_Witness ==
    \E u \in Users :
        /\ IsText(last, u) /\ TextOf(last) = <<" ">>
        /\ Succeeded(last.out, "password_cannot_be_empty")
        /\ Awaiting(states, u) /\ Pending(states, u)
        /\ states[u].password_choice = Some("yes")

----------------------------------------------------------------------------
(* C6, as claimed: a choice press by a user without a pending file is       *)
(* answered with the error, delivers no links and leaves the session store  *)
(* and the metadata store as they were.                                     *)

C6_Claim ==
    [][\A u \in Users, c \in {"pwd_yes", "pwd_no"} :
          (~Pending(states, u) /\ IsChoice(last', u, c)) =>
              /\ Issued(last'.out, "no_file_in_progress")
              /\ ~Issued(last'.out, "links")
              /\ states' = states
              /\ data' = data]_vars

(* C6, amended: such a press is answered with the error alone, delivers no  *)
(* links, changes no record and no existing session; the session store      *)
(* changes at most by gaining an empty session for the pressing user.       *)

C6_Step ==
    \A u \in Users, c \in {"pwd_yes", "pwd_no"} :
        (~Pending(states, u) /\ IsChoice(last', u, c)) =>
            /\ Len(last'.out) = 1
            /\ last'.out[1].call = "answer"
            /\ last'.out[1].tag = "no_file_in_progress"
            /\ data' = data
            /\ DOMAIN states' = DOMAIN states \cup {u}
            /\ \A v \in DOMAIN states : states'[v] = states[v]
            /\ ~Pending(states', u) /\ ~Awaiting(states', u)
            /\ states'[u].file_id = None /\ states'[u].file_name = None
            /\ states'[u].file_size = None /\ states'[u].password_choice = None

\* C6 (amended): a press without a pending file changes at most the presser's
\* empty session into existence.
C6_StalePressRejected == [][C6_Step]_vars

\* A press after the user's flow was delivered: a record of theirs exists,
\* nothing is pending.
C6_Witness ==
    \E u \in Users, k \in DOMAIN data :
        /\ data[k].user_id = u
        /\ IsChoice(last, u, "pwd_yes")
        /\ Succeeded(last.out, "no_file_in_progress")
        /\ u \in DOMAIN states /\ ~Pending(states, u) /\ ~Awaiting(states, u)

----------------------------------------------------------------------------
(* C7: when delivery is asked for and the record of the pending key is      *)
(* absent, the first call issued is the not-found report, no links call is  *)
(* issued, and the session store and the metadata store stay as they were.  *)

C7_Step ==
    \A u \in Users :
        (/\ Pending(states, u)
         /\ PendingKey(states, u) \notin DOMAIN data
         /\ AsksDelivery(states, last', u)) =>
            /\ Len(last'.out) >= 1
            /\ last'.out[1].tag = "file_not_found"
            /\ last'.out[1].call = IF IsText(last', u) THEN "reply_text" ELSE "answer"
            /\ ~Issued(last'.out, "links")
            /\ states' = states
            /\ data' = data

\* C7: delivery with the record absent reports not-found and changes nothing.
C7_MissingRecord == [][C7_Step]_vars

\* The password text of a user whose pending record was removed.
C7_Witness ==
    \E u \in Users :
        /\ IsText(last, u) /\ ~Blank(TextOf(last))
        /\ Succeeded(last.out, "file_not_found")
        /\ Pending(states, u) /\ Awaiting(states, u)
        /\ PendingKey(states, u) \notin DOMAIN data

----------------------------------------------------------------------------
(* C8: when the call that sends the links message raises, the next call     *)
(* issued is the error report to the user and the session store stays as    *)
(* it was before the update: the file is still pending and a password is    *)
(* still awaited if one was.                                                *)

LinksSendFailed(out, i) == i \in DOMAIN out /\ out[i].tag = "links" /\ out[i].res # "ok"

C8_Step ==
    \A u \in Users :
        \A i \in DOMAIN last'.out :
            (last'.user_id = u /\ LinksSendFailed(last'.out, i)) =>
                /\ Len(last'.out) > i
                /\ last'.out[i + 1].tag = "error_generating_links"
                /\ last'.out[i + 1].call = IF IsText(last', u) THEN "reply_text" ELSE "answer"
                /\ states' = states
                /\ Pending(states', u)

\* C8: a failed send of the links is reported and leaves the session as it was.
C8_SendFailureKeepsSession == [][C8_Step]_vars

C8_Witness ==
    \E u \in Users :
        /\ IsText(last, u)
        /\ \E i \in DOMAIN last.out : LinksSendFailed(last.out, i)
        /\ Succeeded(last.out, "error_generating_links")
        /\ Pending(states, u) /\ Awaiting(states, u)
        /\ data[PendingKey(states, u)].has_password

----------------------------------------------------------------------------
(* C9, as claimed: after an update in which the links message for key k     *)
(* reached the user, the user's session does not hold k as pending.         *)

C9_Claim ==
    \A u \in Users :
        last.user_id = u =>
            \A m \in LinksIn(last.out) :
                ~(Pending(states, u) /\ PendingKey(states, u) = m.file_key)

----------------------------------------------------------------------------
(* C10, as claimed: a text message from a user of whom no password is       *)
(* awaited is answered with the send-a-file prompt, and changes no record,  *)
(* no existing session and nothing of what the user has pending.            *)

C10_Claim ==
    [][\A u \in Users :
          (~Awaiting(states, u) /\ IsText(last', u)) =>
              /\ Issued(last'.out, "please_send_a_file")
              /\ data' = data
              /\ \A v \in DOMAIN states : v \in DOMAIN states' /\ states'[v] = states[v]
              /\ ~Pending(states, u) => ~Pending(states', u)
              /\ ~Awaiting(states', u)]_vars

----------------------------------------------------------------------------
(* C12: the update of user u, whatever its calls did, leaves every other    *)
(* user's session as it was (not created, not changed, not cleared), and    *)
(* the only record it may insert or change is the one under u's pending     *)
(* key, before or after the update; it removes none.                        *)

RecordTouched(k) ==
    \/ k \in DOMAIN data' /\ k \notin DOMAIN data
    \/ k \in DOMAIN data /\ k \notin DOMAIN data'
    \/ k \in DOMAIN data /\ k \in DOMAIN data' /\ data'[k] # data[k]

C12_Step ==
    \A u \in Users :
        last'.user_id = u =>
            /\ \A v \in Users \ {u} :
                  /\ v \in DOMAIN states' <=> v \in DOMAIN states
                  /\ v \in DOMAIN states => states'[v] = states[v]
            /\ \A k \in Keys :
                  RecordTouched(k) =>
                      \/ Pending(states, u) /\ PendingKey(states, u) = k
                      \/ Pending(states', u) /\ PendingKey(states', u) = k

\* C12: an update of one user touches no other user's session and no record
\* other than the one under its own pending key.
C12_Isolation == [][C12_Step]_vars

\* A delivery to u that failed, while v waits with a file and a password
\* prompt of their own.
C12_Witness ==
    \E u, v \in Users :
        /\ u # v
        /\ IsChoice(last, u, "pwd_no") /\ ~AllOk(last.out) /\ Pending(states, u)
        /\ Pending(states, v) /\ Awaiting(states, v)
        /\ PendingKey(states, v) \in DOMAIN data
        /\ data[PendingKey(states, v)].user_id = v

----------------------------------------------------------------------------
(* C13, as claimed: the session store has an entry for a user exactly when  *)
(* that user has a pending file key.                                        *)

C13_Claim ==
    \A u \in Users : (u \in DOMAIN states) <=> Pending(states, u)

(* C13, amended: a user with a pending file key has a session, and a        *)
(* session without a pending key is the empty one that get_state creates    *)
(* on first access: no file fields, no password awaited, no choice made.    *)

C13_SessionShape ==
    \A u \in Users :
        /\ Pending(states, u) => u \in DOMAIN states
        /\ (u \in DOMAIN states /\ ~Pending(states, u)) => states[u] = UserState(u)
        /\ u \in DOMAIN states => states[u].user_id = u

\* The empty session of a user whose flow was delivered and who then sent
\* /start.
C13_Witness ==
    \E u \in Users, k \in DOMAIN data :
        /\ data[k].user_id = u
        /\ last.handler = "start_handler" /\ last.user_id = u
        /\ u \in DOMAIN states /\ ~Pending(states, u)

----------------------------------------------------------------------------
(* C14, as claimed: once a record has a password stored, no later text,     *)
(* press, start or fallback update changes that password or its protected   *)
(* flag.  (An upload is left aside: it may put a new record under the key.) *)

C14_Claim ==
    [][\A k \in DOMAIN data :
          (data[k].password # None /\ last'.handler # "file_upload_handler") =>
              /\ k \in DOMAIN data'
              /\ data'[k].password = data[k].password
              /\ data'[k].has_password = data[k].has_password]_vars

----------------------------------------------------------------------------
(* C15: an upload whose relay to the storage channel succeeded puts exactly *)
(* one record: under one key, owned by the uploader, unprotected, without   *)
(* password, describing the uploaded file and located at the relayed        *)
(* message; that key becomes the uploader's pending key and every other     *)
(* record stays as it was.  An upload whose relay did not succeed changes   *)
(* neither store.                                                           *)

\* The relay is the second call of the handler.
Relayed(ev) == Len(ev.out) >= 2 /\ ev.out[2].call = "forward_messages" /\ ev.out[2].res = "ok"

C15_Step ==
    \A u \in Users :
        /\ (IsUpload(last', u) /\ Relayed(last')) =>
              /\ Cardinality({k \in Keys : RecordTouched(k)}) = 1
              /\ \A k \in Keys :
                    RecordTouched(k) =>
                        /\ k \in DOMAIN data'
                        /\ data'[k].file_key = k
                        /\ data'[k].user_id = u
                        /\ data'[k].has_password = FALSE
                        /\ data'[k].password = None
                        /\ data'[k].file_id = MediaOf(last').file_id
                        /\ data'[k].file_size = MediaOf(last').file_size
                        /\ data'[k].message_id_in_storage = next_msg_id
                        /\ Pending(states', u) /\ PendingKey(states', u) = k
              /\ next_msg_id' = next_msg_id + 1
        /\ (IsUpload(last', u) /\ ~Relayed(last')) =>
              /\ data' = data
              /\ states' = states
              /\ next_msg_id' = next_msg_id

\* C15: one key and one record per relayed upload, none for a failed relay.
C15_OneKeyPerUpload == [][C15_Step]_vars

\* A relayed upload whose prompt could not be shown: the record is there and
\* pending all the same.
C15_Witness ==
    \E u \in Users :
        /\ IsUpload(last, u) /\ Relayed(last) /\ ~AllOk(last.out)
        /\ Pending(states, u)
        /\ PendingKey(states, u) \in DOMAIN data
        /\ data[PendingKey(states, u)].user_id = u
        /\ data[PendingKey(states, u)].message_id_in_storage = next_msg_id - 1

----------------------------------------------------------------------------
(* C16: without administrative deletion, the pending key of every session   *)
(* is the key of a record in the metadata store.                            *)

C16_PendingKeyStored ==
    \A u \in Users :
        Pending(states, u) =>
            /\ PendingKey(states, u) \in DOMAIN data
            /\ data[PendingKey(states, u)].file_key = PendingKey(states, u)

\* Both users hold a pending key at once.
C16_Witness ==
    \E u, v \in Users :
        /\ u # v
        /\ Pending(states, u) /\ Pending(states, v)
        /\ PendingKey(states, u) # PendingKey(states, v)
        /\ IsUpload(last, v)

----------------------------------------------------------------------------
(* C17: no update of the conversational flow removes a record; after a      *)
(* second upload by the same user the record of the first is still there.   *)

C17_Step ==
    /\ DOMAIN data \subseteq DOMAIN data'
    /\ \A u \in Users :
          (Pending(states, u) /\ IsUpload(last', u) /\ Relayed(last')) =>
              PendingKey(states, u) \in DOMAIN data'

\* C17: the set of stored keys only grows.
C17_RecordsRetained == [][C17_Step]_vars

\* Upload B has replaced upload A as the user's pending file; A's record is
\* the orphan.
C17_Witness ==
    \E u \in Users, kA, kB \in DOMAIN data :
        /\ kA # kB /\ data[kA].user_id = u /\ data[kB].user_id = u
        /\ data[kA].message_id_in_storage < data[kB].message_id_in_storage
        /\ IsUpload(last, u) /\ Relayed(last)
        /\ Pending(states, u) /\ PendingKey(states, u) = kB

----------------------------------------------------------------------------
(* Calls of the metadata store as a caller sees them *)

\* This step is the call of `op`, from entry to its return or first write.
Calls(op) == ~InCall /\ last' # last /\ last'.op = op

OtherKeysKept(k) ==
    \A j \in Keys \ {k} :
        /\ j \in DOMAIN data' <=> j \in DOMAIN data
        /\ j \in DOMAIN data => data'[j] = data[j]

----------------------------------------------------------------------------
(* C18: store_file(r) returns r's key and leaves r under that key, whether  *)
(* or not a record was there; storing r again changes nothing; every other  *)
(* key keeps its record; get_file returns the record stored under the key   *)
(* and absent for a key that holds none, and only store_file adds keys.     *)

C18_Step ==
    /\ Calls("store_file") =>
          LET r == Val(last'.arg)
          IN  /\ get_file(data', r.file_key) = Some(r)
              /\ last'.ret = Some(r.file_key)
              /\ OtherKeysKept(r.file_key)
              /\ store_file(data', r) = data'
    /\ Calls("get_file") =>
          LET k == last'.file_key
          IN  /\ k \notin DOMAIN data => last'.ret = Some(None)
              /\ k \in DOMAIN data => last'.ret = Some(Some(data[k]))
              /\ data' = data
    /\ ~Calls("store_file") => DOMAIN data' \subseteq DOMAIN data

\* C18: what is put under a key is what get returns for it.
C18_RoundTrip == [][C18_Step]_vars

\* A record read back after it replaced a protected record of another owner
\* under the same key.
C18_Witness ==
    \E k \in DOMAIN data, j \in DOMAIN data :
        /\ k # j
        /\ last # NoEvent /\ last.op = "get_file" /\ last.file_key = k
        /\ last.ret = Some(Some(data[k]))
        /\ data[k].has_password = FALSE /\ data[j].has_password = TRUE
        /\ data[k].user_id # data[j].user_id

----------------------------------------------------------------------------
(* C19: update_password and delete_file on a key that holds no record       *)
(* return False and leave the store as it was; on a key that holds one,     *)
(* update_password returns True with the password stored and the flag set,  *)
(* and delete_file returns True and leaves the key without record.          *)

C19_Step ==
    /\ Calls("update_password") =>
          LET k == last'.file_key
          IN  /\ k \notin DOMAIN data => (last'.ret = Some(FALSE) /\ data' = data)
              /\ k \in DOMAIN data => (last'.ret # Some(FALSE) /\ OtherKeysKept(k))
    /\ (InCall /\ last.op = "update_password") =>
          LET k == last.file_key
          IN  /\ last'.ret = Some(TRUE)
              /\ get_file(data', k) # None
              /\ data'[k].has_password /\ data'[k].password = last.arg
              /\ OtherKeysKept(k)
    /\ Calls("delete_file") =>
          LET k == last'.file_key
          IN  /\ k \notin DOMAIN data => (last'.ret = Some(FALSE) /\ data' = data)
              /\ k \in DOMAIN data => (last'.ret = Some(TRUE) /\ get_file(data', k) = None)
              /\ OtherKeysKept(k)

\* C19: mutations of an absent key fail without effect, of a present key succeed.
C19_AbsentKeyMutations == [][C19_Step]_vars

\* update_password refused for a key without record while the other key
\* holds one.
C19_Witness ==
    /\ last # NoEvent /\ last.op = "update_password" /\ last.ret = Some(FALSE)
    /\ last.file_key \notin DOMAIN data
    /\ DOMAIN data # {}

----------------------------------------------------------------------------
(* C20: in every state, the one between the two field writes of             *)
(* update_password included, get_file returns no record that is marked      *)
(* protected and has no password.                                           *)

C20_NoDirtyRead ==
    \A k \in Keys :
        LET metadata == get_file(data, k)
        IN  (metadata # None /\ Val(metadata).has_password) => Val(metadata).password # None

\* Between the two writes: the password is there, the flag is not yet set.
C20_Witness ==
    /\ InCall /\ last.op = "update_password"
    /\ data[last.file_key].password = last.arg
    /\ ~data[last.file_key].has_password

----------------------------------------------------------------------------
(* C11, as claimed: when all handlers started for a user have returned and  *)
(* the update that arrived last for that user was an upload whose relay     *)
(* succeeded, that upload is the user's pending file, as it is when the     *)
(* updates are handled one after the other in arrival order.                *)

TasksOf(u) == {i \in DOMAIN tasks : tasks[i].user_id = u}

LastOf(u) == CHOOSE i \in TasksOf(u) : \A j \in TasksOf(u) : j <= i

C11_Claim ==
    \A u \in Users :
        (TasksOf(u) # {} /\ \A i \in TasksOf(u) : tasks[i].pc = "done") =>
            LET b == tasks[LastOf(u)]
            IN  (b.handler = "file_upload_handler" /\ b.result = "stored") =>
                    /\ Pending(states, u)
                    /\ PendingKey(states, u) = Val(b.file_key)
                    /\ states[u].file_id = Some(MediaOf(b).file_id)

----------------------------------------------------------------------------
(* C21: clear_state(u) leaves no entry for u, whatever the entry held, and  *)
(* changes nothing when there is none; get_state(u) always returns a        *)
(* session, and on a user without entry, as after clear_state, a fresh one: *)
(* no pending key, handle, name or size, no password awaited, no choice.    *)

Fresh(s, u) ==
    /\ s.user_id = u
    /\ s.file_key = None /\ s.file_id = None /\ s.file_name = None /\ s.file_size = None
    /\ s.awaiting_password = FALSE /\ s.password_choice = None

OtherSessionsKept(u) ==
    \A v \in Users \ {u} :
        /\ v \in DOMAIN states' <=> v \in DOMAIN states
        /\ v \in DOMAIN states => states'[v] = states[v]

C21_Step ==
    LET u == last'.user_id
    IN  /\ last'.op = "clear_state" =>
              /\ u \notin DOMAIN states'
              /\ u \notin DOMAIN states => states' = states
              /\ OtherSessionsKept(u)
              /\ Fresh(get_state(states', u)[u], u)
        /\ last'.op = "get_state" =>
              /\ u \in DOMAIN states'
              /\ last'.ret = Some(states'[u])
              /\ u \notin DOMAIN states => Fresh(Val(last'.ret), u)
              /\ u \in DOMAIN states => states' = states
              /\ OtherSessionsKept(u)

\* C21: get after clear is a fresh session; clear without session does nothing.
C21_ClearThenGet == [][C21_Step]_vars

\* clear_state has just removed a session that held a file, an awaited
\* password and a choice, while the other user keeps theirs.
C21_Witness ==
    \E u, v \in Users :
        /\ u # v
        /\ last # NoEvent /\ last.op = "clear_state" /\ last.user_id = u
        /\ last.found # None
        /\ Val(last.found).file_key # None /\ Val(last.found).awaiting_password
        /\ Val(last.found).password_choice # None
        /\ u \notin DOMAIN states
        /\ Fresh(get_state(states, u)[u], u)
        /\ Pending(states, v) /\ Awaiting(states, v)

----------------------------------------------------------------------------
(* C22: a set-password press by a user who has a pending file and of whom   *)
(* no password is awaited leaves the session with awaiting_password true    *)
(* and password_choice "yes" and nothing else changed, delivers no links,   *)
(* keeps the session and changes no record.                                 *)

C22_Step ==
    \A u \in Users :
        (Pending(states, u) /\ ~Awaiting(states, u) /\ IsChoice(last', u, "pwd_yes")) =>
            /\ u \in DOMAIN states'
            /\ states'[u] = [states[u] EXCEPT !.awaiting_password = TRUE,
                                              !.password_choice = Some("yes")]
            /\ Pending(states', u) /\ Awaiting(states', u)
            /\ ~Issued(last'.out, "links")
            /\ Len(last'.out) >= 1 /\ last'.out[1].tag = "enter_password"
            /\ data' = data

\* C22: the set-password press only raises the two flags of the session.
C22_SetPasswordPress == [][C22_Step]_vars

\* The press was answered and the user now awaits with the file still
\* pending and its record untouched.
C22_Witness ==
    \E u \in Users :
        /\ IsChoice(last, u, "pwd_yes") /\ AllOk(last.out)
        /\ Succeeded(last.out, "enter_password")
        /\ Pending(states, u) /\ Awaiting(states, u)
        /\ states[u].password_choice = Some("yes")
        /\ PendingKey(states, u) \in DOMAIN data
        /\ ~data[PendingKey(states, u)].has_password
        /\ data[PendingKey(states, u)].password = None

----------------------------------------------------------------------------
(* C23: a password text changes at most the record under the sender's       *)
(* pending key at that moment; every other record, that of an earlier file  *)
(* of the same user included, stays as it was.                              *)

C23_Step ==
    \A u \in Users :
        (Awaiting(states, u) /\ IsText(last', u)) =>
            /\ \A k \in Keys : RecordTouched(k) => (Pending(states, u) /\ k = PendingKey(states, u))
            /\ DOMAIN data' = DOMAIN data

\* C23: only the pending record takes the password.
C23_OnlyPendingRecord == [][C23_Step]_vars

\* After [upload 1, no password, upload 2, set password, text]: file 2 is
\* protected and delivered, file 1 is as its delivery left it.
C23_Witness ==
    \E u \in Users, k1, k2 \in DOMAIN data :
        /\ k1 # k2 /\ data[k1].user_id = u /\ data[k2].user_id = u
        /\ data[k1].message_id_in_storage < data[k2].message_id_in_storage
        /\ ~data[k1].has_password /\ data[k1].password = None
        /\ data[k2].has_password /\ data[k2].password # None
        /\ IsText(last, u) /\ AllOk(last.out)
        /\ \E m \in LinksIn(last.out) : m.file_key = k2
        /\ u \notin DOMAIN states

----------------------------------------------------------------------------
(* C24, as claimed: the protection status shown in a links message that     *)
(* reached the user is the has_password flag of the record under the key    *)
(* the message shows.                                                       *)

C24_Claim ==
    \A m \in LinksIn(last.out) :
        /\ m.file_key \in DOMAIN data
        /\ (m.password_protected = "Yes") <=> data[m.file_key].has_password

----------------------------------------------------------------------------
(* C25, as claimed: a links message that reached the user shows one key,    *)
(* in its key field and in its stream and download links, and that key and  *)
(* the name shown are those of one upload of the user.                      *)

Delivered(task) == task.pc = "done" /\ task.result \in {"links", "links_unanswered"}

\* Upload j of user u was stored under key k with name n.
StoredAs(j, u, k, n) ==
    /\ tasks[j].handler = "file_upload_handler" /\ tasks[j].user_id = u
    /\ tasks[j].result = "stored" /\ tasks[j].file_key = Some(k)
    /\ upload_file_name(MediaOf(tasks[j])) = n

C25_Claim ==
    \A i \in DOMAIN tasks :
        Delivered(tasks[i]) =>
            LET m == Val(tasks[i].links)
            IN  /\ m.stream_link[2] = m.file_key
                /\ m.download_link[2] = m.file_key
                /\ \E j \in DOMAIN tasks : StoredAs(j, tasks[i].user_id, m.file_key, m.file_name)

----------------------------------------------------------------------------
(* C26: a session that awaits a password holds a pending file key.          *)

C26_AwaitingHasFile ==
    \A u \in Users : Awaiting(states, u) => Pending(states, u)

\* An upload arrived while a password was awaited: the flag stays and the
\* new file is pending.
C26_Witness ==
    \E u \in Users :
        /\ UploadOk(last, u)
        /\ Awaiting(states, u) /\ Pending(states, u)
        /\ PendingKey(states, u) = PromptOf(last).file_key

----------------------------------------------------------------------------
(* C27, as claimed: an upload that ends with the 'Error processing file'    *)
(* report has changed neither the metadata store nor the session store.     *)

C27_Claim ==
    [][\A u \in Users :
          (IsUpload(last', u) /\ Issued(last'.out, "error_processing_file")) =>
              /\ data' = data
              /\ states' = states]_vars

----------------------------------------------------------------------------
(* C28, as claimed: a no-password press by a user with a pending file and   *)
(* no password awaited, when it delivers the links, leaves the metadata     *)
(* store as it was and the record under the delivered key unprotected and   *)
(* without password.                                                        *)

C28_Claim ==
    [][\A u \in Users :
          (/\ Pending(states, u) /\ ~Awaiting(states, u)
           /\ IsChoice(last', u, "pwd_no") /\ LinksIn(last'.out) # {}) =>
              LET k == PendingKey(states, u)
              IN  /\ data' = data
                  /\ k \in DOMAIN data'
                  /\ data'[k].has_password = FALSE
                  /\ data'[k].password = None]_vars

====
